---- MODULE Spec2Model ----
(***************************************************************************)
(* A model of QrCodeGenerator (src/src/QrCodeGenerator.cpp): the three     *)
(* entry points generateQr, paintQr and generateSvgQr, and the three       *)
(* projections toSvgString, qrCodePaint and qrCodeToImage of a symbol.     *)
(*                                                                         *)
(* Text written to the QTextStream is a TLA+ string, built with \o exactly *)
(* as the stream appends it.  A qreal is modelled by an exact rational     *)
(* <<numerator, denominator>> in lowest terms: 0.02 is 1/50 and 1.04 is    *)
(* 26/25; the rounding of IEEE doubles is not modelled.                    *)
(***************************************************************************)
EXTENDS Integers, Sequences, FiniteSets, TLC

VARIABLES
    qrCode,    \* the symbol last encoded (Spec) or handed to a projection (SpecRender)
    painter,   \* the caller's QPainter: its transform, brush and pen
    paints,    \* the paints applied to the caller's QPainter since it was fresh
    call,      \* the last call: entry point, arguments, outcome, output
    kept       \* an earlier call, remembered for comparison (history variable)

vars == <<qrCode, painter, paints, call, kept>>

----------------------------------------------------------------------------
(* Bounds of the model *)

MaxN == 2          \* largest symbol side drawn for the projections
MaxBorder == 1     \* small borders 0..MaxBorder
MaxSize == 3       \* output sizes 1..MaxSize
MaxPaints == 2     \* paints accumulated on one painter before the caller replaces it
MaxPainters == 2   \* painters the caller begins, one after the other

----------------------------------------------------------------------------
(* Exact rationals standing for qreal *)

RECURSIVE Gcd(_, _)
Gcd(a, b) == IF b = 0 THEN a ELSE Gcd(b, a % b)

Abs(a) == IF a < 0 THEN -a ELSE a

Rat(n, d) ==
    LET g == Gcd(Abs(n), Abs(d))
        s == IF d < 0 THEN -1 ELSE 1
    IN  <<(s * n) \div g, (s * d) \div g>>

RInt(n) == <<n, 1>>

\* sums over the least common denominator, products reduced crosswise first, so
\* that no intermediate value is larger than the operands and the result need be
RAdd(a, b) ==
    LET g == Gcd(a[2], b[2])
    IN  Rat(a[1] * (b[2] \div g) + b[1] * (a[2] \div g), (a[2] \div g) * b[2])

RNeg(a) == <<-a[1], a[2]>>
RSub(a, b) == RAdd(a, RNeg(b))

RMul(a, b) ==
    LET g1 == Gcd(Abs(a[1]), b[2])
        g2 == Gcd(Abs(b[1]), a[2])
    IN  Rat((a[1] \div g1) * (b[1] \div g2), (a[2] \div g2) * (b[2] \div g1))

RDiv(a, b) == RMul(a, IF b[1] < 0 THEN <<-b[2], -b[1]>> ELSE <<b[2], b[1]>>)
RLe(a, b) == RSub(b, a)[1] >= 0
RLt(a, b) == RSub(b, a)[1] > 0

----------------------------------------------------------------------------
(* qrcodegen::QrCode as the renderer sees it: getSize() and getModule(x, y) *)

Cells(n) == (0 .. n - 1) \X (0 .. n - 1)

Symbols == UNION {[size : {n}, dark : SUBSET Cells(n)] : n \in 1 .. MaxN}

getSize(qr) == qr.size

getModule(qr, x, y) == <<x, y>> \in qr.dark

----------------------------------------------------------------------------
(* QTextStream << int : decimal digits, a minus sign for a negative value *)

Digit(d) == SubSeq("0123456789", d + 1, d + 1)

RECURSIVE DecNat(_)
DecNat(n) == IF n < 10 THEN Digit(n) ELSE DecNat(n \div 10) \o Digit(n % 10)

Dec(n) == IF n < 0 THEN "-" \o DecNat(-n) ELSE DecNat(n)

----------------------------------------------------------------------------
(* toSvgString *)

XmlDeclaration == "<?xml version=\"1.0\" encoding=\"UTF-8\"?>"

Doctype == "<!DOCTYPE svg PUBLIC \"-//W3C//DTD SVG 1.1//EN\" \"http://www.w3.org/Graphics/SVG/1.1/DTD/svg11.dtd\">"

SvgOpen == "<svg xmlns=\"http://www.w3.org/2000/svg\" version=\"1.1\" viewBox=\"0 0 "

RectAndPathOpen == "\" stroke=\"none\"><rect width=\"100%\" height=\"100%\" fill=\"#FFFFFF\"/><path d=\""

PathCloseAndSvgClose == "\" fill=\"#000000\"/></svg>"

\* border * 2 truncated to the 16 bits of a quint16
ViewBoxSide16(qr, border) == getSize(qr) + ((border * 2) % 65536)

\* only one of the two borders is counted
ViewBoxSideOneBorder(qr, border) == getSize(qr) + border

\* qr.getSize() + border * 2: border is promoted to int before the product
ViewBoxSide(qr, border) == getSize(qr) + border * 2

\* the border is left out of the coordinates
SubPathNoBorder(x, y, border) ==
    (IF x = 0 /\ y = 0 THEN "" ELSE " ")
        \o "M" \o Dec(x) \o "," \o Dec(y) \o "h1v1h-1z"

\* what one dark module appends to the stream
SubPath(x, y, border) ==
    (IF x = 0 /\ y = 0 THEN "" ELSE " ")
        \o "M" \o Dec(x + border) \o "," \o Dec(y + border) \o "h1v1h-1z"

\* the inner loop, for (int x = ...; x < qr.getSize(); x++), from column x on
RECURSIVE SvgRow(_, _, _, _)
SvgRow(qr, border, y, x) ==
    IF x < getSize(qr)
    THEN (IF getModule(qr, x, y) THEN SubPath(x, y, border) ELSE "")
             \o SvgRow(qr, border, y, x + 1)
    ELSE ""

\* the outer loop, for (int y = ...; y < qr.getSize(); y++), from row y on
RECURSIVE SvgRows(_, _, _)
SvgRows(qr, border, y) ==
    IF y < getSize(qr)
    THEN SvgRow(qr, border, y, 0) \o SvgRows(qr, border, y + 1)
    ELSE ""

SvgPathData(qr, border) == SvgRows(qr, border, 0)

toSvgString(qr, border) ==
    XmlDeclaration \o Doctype \o SvgOpen
        \o Dec(ViewBoxSide(qr, border)) \o " " \o Dec(ViewBoxSide(qr, border))
        \o RectAndPathOpen
        \o SvgPathData(qr, border)
        \o PathCloseAndSvgClose

----------------------------------------------------------------------------
(* QPainter: the world transform maps (x, y) to (m11*x + dx, m22*y + dy) *)

Identity == [m11 |-> RInt(1), m22 |-> RInt(1), dx |-> RInt(0), dy |-> RInt(0)]

\* the k-th painter of the caller, just begun, with the caller's own brush and pen
CallerPainter(k) ==
    [object |-> k, transform |-> Identity, brush |-> "callerBrush", pen |-> "callerPen"]

\* QPainter::scale(sx, sy)
scale(p, sx, sy) ==
    [p EXCEPT !.transform.m11 = RMul(@, sx), !.transform.m22 = RMul(@, sy)]

\* QPainter::translate(tx, ty)
translate(p, tx, ty) ==
    [p EXCEPT !.transform.dx = RAdd(@, RMul(p.transform.m11, tx)),
              !.transform.dy = RAdd(@, RMul(p.transform.m22, ty))]

\* QPainter::drawRect(QRectF(x, y, w, h)): the rectangle as it lands on the device
drawRect(p, x, y, w, h) ==
    [left   |-> RAdd(RMul(p.transform.m11, x), p.transform.dx),
     top    |-> RAdd(RMul(p.transform.m22, y), p.transform.dy),
     width  |-> RMul(p.transform.m11, w),
     height |-> RMul(p.transform.m22, h),
     brush  |-> p.brush,
     pen    |-> p.pen]

----------------------------------------------------------------------------
(* qrCodePaint *)

Epsilon == Rat(2, 100)        \* 0.02

\* the square is inflated on one side only
ModuleSideNarrow == Rat(102, 100)

ModuleSide == Rat(104, 100)   \* 1.04

\* qreal scale = qreal(size) / (qrCode.getSize() + 2 * border)
PaintScale(qr, border, size) == Rat(size, getSize(qr) + 2 * border)

\* the translation is applied before the scale
PaintTransformTranslateFirst(p, qr, border, size) ==
    LET s == Rat(size, getSize(qr) + 2 * border)
        t == RSub(RInt(border), Epsilon)
    IN  scale(translate(p, t, t), s, s)

\* the painter after painter->scale(scale, scale); painter->translate(border - 0.02, ...)
PaintTransform(p, qr, border, size) ==
    LET s == PaintScale(qr, border, size)
        t == RSub(RInt(border), Epsilon)
    IN  translate(scale(p, s, s), t, t)

\* the inner loop from column x on: one drawRect per dark module
RECURSIVE PaintRow(_, _, _, _)
PaintRow(p, qr, y, x) ==
    IF x < getSize(qr)
    THEN (IF getModule(qr, x, y)
          THEN <<drawRect(p, RInt(x), RInt(y), ModuleSide, ModuleSide)>>
          ELSE <<>>)
             \o PaintRow(p, qr, y, x + 1)
    ELSE <<>>

\* the outer loop from row y on
RECURSIVE PaintRows(_, _, _)
PaintRows(p, qr, y) ==
    IF y < getSize(qr)
    THEN PaintRow(p, qr, y, 0) \o PaintRows(p, qr, y + 1)
    ELSE <<>>

\* the transform is saved before the paint and restored after it
qrCodePaintRestoring(p, qr, border, size) ==
    LET q == PaintTransform(p, qr, border, size)
    IN  [painter |-> p, drawn |-> PaintRows(q, qr, 0)]

\* the painter as the call leaves it, and the rectangles it drew on the device
qrCodePaint(p, qr, border, size) ==
    LET q == PaintTransform(p, qr, border, size)
    IN  [painter |-> q, drawn |-> PaintRows(q, qr, 0)]

----------------------------------------------------------------------------
(* qrCodeToImage *)

\* one painter is kept between calls and used again
ImagePainterShared == [painter EXCEPT !.brush = "black", !.pen = "NoPen"]

\* QPainter painter(&image); setBrush(black, SolidPattern); setPen(NoPen)
ImagePainter ==
    [object |-> 0, transform |-> Identity, brush |-> "black", pen |-> "NoPen"]

\* one pixel for each module and border unit
ImageSideModules(qr, border, size) == getSize(qr) + 2 * border

\* QImage image(size, size, QImage::Format_ARGB32)
ImageSide(qr, border, size) == size

qrCodeToImage(qr, border, size) ==
    [width      |-> ImageSide(qr, border, size),
     height     |-> ImageSide(qr, border, size),
     format     |-> "ARGB32",
     background |-> "white",
     drawn      |-> qrCodePaint(ImagePainter, qr, border, size).drawn]

----------------------------------------------------------------------------
(* qrcodegen::QrCode::encodeText: the external encoder.  A stand-in that is *)
(* a fixed function of (text, level): the symbol grows with the text and    *)
(* the level's redundancy, and the text is refused once it no longer fits.  *)

EccLevels == {"LOW", "MEDIUM", "QUARTILE", "HIGH"}

Texts == {"", "HI"}

Redundancy(ecl) ==
    CASE ecl = "LOW" -> 0 [] ecl = "MEDIUM" -> 1 [] ecl = "QUARTILE" -> 2 [] ecl = "HIGH" -> 3

Payload(text, ecl) == Len(text) + Redundancy(ecl)

\* the side of the smallest symbol holding the payload: 1 for none, else 2
SymbolSide(text, ecl) == IF Payload(text, ecl) = 0 THEN 1 ELSE 2

NoSymbol == [size |-> 0, dark |-> {}]

encodeText(text, ecl) ==
    IF Payload(text, ecl) > 3
    THEN [ok |-> FALSE, error |-> "EncodingFailure", qr |-> NoSymbol]
    ELSE LET n == SymbolSide(text, ecl)
         IN  [ok |-> TRUE, error |-> "none",
              qr |-> [size |-> n,
                      dark |-> {c \in Cells(n) :
                                  (c[2] * n + c[1] + Payload(text, ecl)) % 2 = 0}]]

----------------------------------------------------------------------------
(* The entry points.  Each returns the outcome, the output and the caller's *)
(* painter as the call leaves it; an exception of encodeText leaves the     *)
(* function before its next statement.                                      *)

NoOutput == [kind |-> "none"]

generateQr(data, size, borderSize, errorCorrection) ==
    LET e == encodeText(data, errorCorrection)
    IN  IF ~e.ok
        THEN [outcome |-> e.error, output |-> NoOutput]
        ELSE [outcome |-> "ok",
              output |-> [kind |-> "image", image |-> qrCodeToImage(e.qr, borderSize, size)]]

\* a failure of the encoder is caught and a one-module placeholder is painted
paintQrFallback(p, data, size, borderSize, errorCorrection) ==
    LET e == encodeText(data, errorCorrection)
        qr == IF e.ok THEN e.qr ELSE [size |-> 1, dark |-> {<<0, 0>>}]
        r == qrCodePaint(p, qr, borderSize, size)
    IN  [outcome |-> "ok", output |-> [kind |-> "paint", drawn |-> r.drawn],
         painter |-> r.painter]

paintQr(p, data, size, borderSize, errorCorrection) ==
    LET e == encodeText(data, errorCorrection)
    IN  IF ~e.ok
        THEN [outcome |-> e.error, output |-> NoOutput, painter |-> p]
        ELSE LET r == qrCodePaint(p, e.qr, borderSize, size)
             IN  [outcome |-> "ok",
                  output |-> [kind |-> "paint", drawn |-> r.drawn],
                  painter |-> r.painter]

generateSvgQr(data, borderSize, errorCorrection) ==
    LET e == encodeText(data, errorCorrection)
    IN  IF ~e.ok
        THEN [outcome |-> e.error, output |-> NoOutput]
        ELSE [outcome |-> "ok",
              output |-> [kind |-> "svg", doc |-> toSvgString(e.qr, borderSize)]]

----------------------------------------------------------------------------
(* The program: a caller making any sequence of calls on one generator with *)
(* one painter of its own.                                                  *)

\* the arguments the caller passes: one output size, no border or the widest one
CallSizes == {MaxSize}
CallBorders == {0, MaxBorder}

NoCall == [entry |-> "none"]

Init ==
    /\ qrCode = NoSymbol
    /\ painter = CallerPainter(1)
    /\ paints = <<>>
    /\ call = NoCall
    /\ kept = NoCall

GenerateQrCall(data, size, borderSize, ecl) ==
    LET r == generateQr(data, size, borderSize, ecl)
    IN  [entry |-> "generateQr", data |-> data, size |-> size,
         borderSize |-> borderSize, errorCorrection |-> ecl,
         outcome |-> r.outcome, output |-> r.output]

PaintQrCall(p, data, size, borderSize, ecl) ==
    LET r == paintQr(p, data, size, borderSize, ecl)
    IN  [entry |-> "paintQr", before |-> p, data |-> data, size |-> size,
         borderSize |-> borderSize, errorCorrection |-> ecl,
         outcome |-> r.outcome, output |-> r.output]

GenerateSvgQrCall(data, borderSize, ecl) ==
    LET r == generateSvgQr(data, borderSize, ecl)
    IN  [entry |-> "generateSvgQr", data |-> data,
         borderSize |-> borderSize, errorCorrection |-> ecl,
         outcome |-> r.outcome, output |-> r.output]

\* what a paint adds to the record of the paints applied to the painter
Painted(data, size, borderSize, ecl) ==
    IF encodeText(data, ecl).ok
    THEN <<[n |-> getSize(encodeText(data, ecl).qr), border |-> borderSize, size |-> size]>>
    ELSE <<>>

GenerateQr ==
    \E data \in Texts, size \in CallSizes, borderSize \in CallBorders, ecl \in EccLevels :
        /\ call' = GenerateQrCall(data, size, borderSize, ecl)
        /\ qrCode' = encodeText(data, ecl).qr
        /\ UNCHANGED <<painter, paints, kept>>

PaintQr ==
    /\ Len(paints) < MaxPaints
    /\ \E data \in Texts, size \in CallSizes, borderSize \in CallBorders, ecl \in EccLevels :
        /\ call' = PaintQrCall(painter, data, size, borderSize, ecl)
        /\ qrCode' = encodeText(data, ecl).qr
        /\ painter' = paintQr(painter, data, size, borderSize, ecl).painter
        /\ paints' = paints \o Painted(data, size, borderSize, ecl)
        /\ UNCHANGED kept

GenerateSvgQr ==
    \E data \in Texts, borderSize \in CallBorders, ecl \in EccLevels :
        /\ call' = GenerateSvgQrCall(data, borderSize, ecl)
        /\ qrCode' = encodeText(data, ecl).qr
        /\ UNCHANGED <<painter, paints, kept>>

\* the caller ends its painter and begins a fresh one
BeginPainter ==
    /\ paints # <<>>
    /\ painter.object < MaxPainters
    /\ painter' = CallerPainter(painter.object + 1)
    /\ paints' = <<>>
    /\ UNCHANGED <<qrCode, call, kept>>

Next == GenerateQr \/ PaintQr \/ GenerateSvgQr \/ BeginPainter

Spec == Init /\ [][Next]_vars

----------------------------------------------------------------------------
(* The same program with two of its calls observed: one call is kept, any   *)
(* calls follow it, and the kept call is made again with the same arguments *)
(* (for paintQr: on the same painter object, whatever state it is in).      *)

FirstCall ==
    /\ kept = NoCall
    /\ \E data \in Texts, size \in CallSizes, borderSize \in CallBorders, ecl \in EccLevels :
        \/ /\ kept' = GenerateQrCall(data, size, borderSize, ecl)
           /\ UNCHANGED <<painter, paints>>
        \/ /\ kept' = GenerateSvgQrCall(data, borderSize, ecl)
           /\ UNCHANGED <<painter, paints>>
        \/ /\ Len(paints) < MaxPaints
           /\ kept' = PaintQrCall(painter, data, size, borderSize, ecl)
           /\ painter' = paintQr(painter, data, size, borderSize, ecl).painter
           /\ paints' = paints \o Painted(data, size, borderSize, ecl)
    /\ UNCHANGED <<qrCode, call>>

\* a call that is not observed: only what it does to the painter remains
OtherCall ==
    /\ call = NoCall
    /\ \E data \in Texts, size \in CallSizes, borderSize \in CallBorders, ecl \in EccLevels :
        \/ /\ generateQr(data, size, borderSize, ecl).outcome \in {"ok", "EncodingFailure"}
           /\ UNCHANGED <<painter, paints>>
        \/ /\ generateSvgQr(data, borderSize, ecl).outcome \in {"ok", "EncodingFailure"}
           /\ UNCHANGED <<painter, paints>>
        \/ /\ Len(paints) < MaxPaints
           /\ painter' = paintQr(painter, data, size, borderSize, ecl).painter
           /\ paints' = paints \o Painted(data, size, borderSize, ecl)
    /\ UNCHANGED <<qrCode, call, kept>>

OtherBeginPainter ==
    /\ call = NoCall
    /\ BeginPainter

SecondCall ==
    /\ kept # NoCall
    /\ call = NoCall
    /\ \/ /\ kept.entry = "generateQr"
          /\ call' = GenerateQrCall(kept.data, kept.size, kept.borderSize, kept.errorCorrection)
          /\ UNCHANGED <<painter, paints>>
       \/ /\ kept.entry = "generateSvgQr"
          /\ call' = GenerateSvgQrCall(kept.data, kept.borderSize, kept.errorCorrection)
          /\ UNCHANGED <<painter, paints>>
       \/ /\ kept.entry = "paintQr"
          /\ Len(paints) < MaxPaints
          /\ call' = PaintQrCall(painter, kept.data, kept.size, kept.borderSize,
                                 kept.errorCorrection)
          /\ painter' = paintQr(painter, kept.data, kept.size, kept.borderSize,
                                kept.errorCorrection).painter
          /\ paints' = paints \o Painted(kept.data, kept.size, kept.borderSize,
                                         kept.errorCorrection)
    /\ UNCHANGED <<qrCode, kept>>

NextRepeat == FirstCall \/ OtherCall \/ OtherBeginPainter \/ SecondCall

SpecRepeat == Init /\ [][NextRepeat]_vars

----------------------------------------------------------------------------
(* The projections applied to any symbol: the inputs are drawn at the start *)
(* and one projection runs on them.                                         *)

Borders == (0 .. MaxBorder) \cup {32768, 65535}
Sizes == 1 .. MaxSize

InitRender ==
    /\ qrCode \in Symbols
    /\ painter = CallerPainter(1)
    /\ paints = <<>>
    /\ \E border \in Borders, size \in Sizes :
           call = [entry |-> "none", border |-> border, size |-> size,
                   output |-> NoOutput]
    /\ kept = NoCall

ToSvgString ==
    /\ call.entry = "none"
    /\ call' = [call EXCEPT !.entry = "toSvgString",
                   !.output = [kind |-> "svg", doc |-> toSvgString(qrCode, call.border)]]
    /\ UNCHANGED <<qrCode, painter, paints, kept>>

QrCodePaint ==
    /\ call.entry = "none"
    /\ call' = [call EXCEPT !.entry = "qrCodePaint",
                   !.output = [kind |-> "paint",
                               drawn |-> qrCodePaint(painter, qrCode, call.border,
                                                     call.size).drawn]]
    /\ painter' = qrCodePaint(painter, qrCode, call.border, call.size).painter
    /\ paints' = <<[n |-> getSize(qrCode), border |-> call.border, size |-> call.size]>>
    /\ UNCHANGED <<qrCode, kept>>

QrCodeToImage ==
    /\ call.entry = "none"
    /\ call' = [call EXCEPT !.entry = "qrCodeToImage",
                   !.output = [kind |-> "image",
                               image |-> qrCodeToImage(qrCode, call.border, call.size)]]
    /\ UNCHANGED <<qrCode, painter, paints, kept>>

NextRender == ToSvgString \/ QrCodePaint \/ QrCodeToImage

SpecRender == InitRender /\ [][NextRender]_vars

----------------------------------------------------------------------------
(* Reading an SVG document back: the attribute values and the sub-paths of  *)
(* the path data, found by scanning the text.                               *)

Char(s, i) == SubSeq(s, i, i)

StartsAt(s, pat, i) ==
    /\ i >= 1
    /\ i + Len(pat) - 1 <= Len(s)
    /\ SubSeq(s, i, i + Len(pat) - 1) = pat

Occurrences(s, pat) == {i \in 1 .. Len(s) : StartsAt(s, pat, i)}

\* the first position from i on where pat starts, Len(s) + 1 when there is none
Find(s, pat, i) ==
    LET hits == {j \in i .. Len(s) : StartsAt(s, pat, j)}
    IN  IF hits = {} THEN Len(s) + 1
        ELSE CHOOSE j \in hits : \A k \in hits : j <= k

\* the value of the attribute opened by `open` (such as  d="), up to the closing quote
Attribute(doc, open) ==
    LET from == Find(doc, open, 1) + Len(open)
    IN  SubSeq(doc, from, Find(doc, "\"", from) - 1)

IsDigits(s) ==
    /\ Len(s) >= 1
    /\ \A i \in 1 .. Len(s) : \E d \in 0 .. 9 : Char(s, i) = Digit(d)

RECURSIVE ParseNat(_)
ParseNat(s) ==
    IF Len(s) = 0 THEN 0
    ELSE 10 * ParseNat(SubSeq(s, 1, Len(s) - 1))
             + (CHOOSE d \in 0 .. 9 : Char(s, Len(s)) = Digit(d))

\* one sub-path text "M<x>,<y>h1v1h-1z" read back; ok is FALSE for any other text
ReadSubPath(t) ==
    LET comma == Find(t, ",", 1)
        h     == Find(t, "h", 1)
        xs    == SubSeq(t, 2, comma - 1)
        ys    == SubSeq(t, comma + 1, h - 1)
        ok    == /\ Char(t, 1) = "M"
                 /\ comma < h
                 /\ IsDigits(xs)
                 /\ IsDigits(ys)
                 /\ SubSeq(t, h, Len(t)) = "h1v1h-1z"
    IN  [ok |-> ok,
         x  |-> IF ok THEN ParseNat(xs) ELSE -1,
         y  |-> IF ok THEN ParseNat(ys) ELSE -1]

\* the path data cut into its pieces from position i on: each "M...z" sub-path,
\* and between them every other character as a piece of its own
RECURSIVE Pieces(_, _)
Pieces(d, i) ==
    IF i > Len(d) THEN <<>>
    ELSE IF Char(d, i) = "M"
         THEN LET z == Find(d, "z", i)
              IN  <<[kind |-> "subpath", text |-> SubSeq(d, i, z)]>> \o Pieces(d, z + 1)
         ELSE <<[kind |-> "other", text |-> Char(d, i)]>> \o Pieces(d, i + 1)

SubPathsOf(d) ==
    LET ps == Pieces(d, 1)
        at == {i \in 1 .. Len(ps) : ps[i].kind = "subpath"}
        nth(k) == CHOOSE i \in at : Cardinality({j \in at : j < i}) = k - 1
    IN  [k \in 1 .. Cardinality(at) |-> ReadSubPath(ps[nth(k)].text)]

\* the svg document of the state, when toSvgString has run
SvgRan == call.entry = "toSvgString"
Doc == call.output.doc
PathData == Attribute(Doc, "<path d=\"")

\* the position of a cell in row-major order
RowMajor(qr, c) == c[2] * getSize(qr) + c[1]

----------------------------------------------------------------------------
(* C1: the path data holds exactly one M...z sub-path for each dark module  *)
(* and none for a light one, and the sub-path of the dark module at (x, y)  *)
(* has the coordinates (x + border, y + border).                            *)

C1_SubPathPerDarkModule ==
    SvgRan =>
        LET subs == SubPathsOf(PathData)
            b == call.border
        IN  /\ Len(subs) = Cardinality(qrCode.dark)
            /\ Cardinality(Occurrences(PathData, "M")) = Cardinality(qrCode.dark)
            /\ Cardinality(Occurrences(PathData, "z")) = Cardinality(qrCode.dark)
            /\ \A k \in 1 .. Len(subs) :
                   /\ subs[k].ok
                   /\ <<subs[k].x - b, subs[k].y - b>> \in qrCode.dark
            /\ \A c \in qrCode.dark :
                   Cardinality({k \in 1 .. Len(subs) :
                                   subs[k].x = c[1] + b /\ subs[k].y = c[2] + b}) = 1

\* toSvgString ran on a symbol with dark and light modules and a border
C1_Witness ==
    /\ SvgRan
    /\ qrCode.size = 2
    /\ Cardinality(qrCode.dark) = 2
    /\ <<0, 0>> \notin qrCode.dark
    /\ call.border = 1

----------------------------------------------------------------------------
(* C2: the sub-paths appear in row-major order, two consecutive sub-paths   *)
(* are separated by exactly one space, and nothing precedes the first       *)
(* sub-path: the path data never starts with a space.                       *)

C2_RowMajorSingleSpaces ==
    SvgRan =>
        LET ps == Pieces(PathData, 1)
            subs == SubPathsOf(PathData)
            b == call.border
        IN  /\ \A k \in 1 .. Len(subs) - 1 :
                   RowMajor(qrCode, <<subs[k].x - b, subs[k].y - b>>)
                       < RowMajor(qrCode, <<subs[k + 1].x - b, subs[k + 1].y - b>>)
            /\ \A i \in 1 .. Len(ps) :
                   ps[i].kind = "other" =>
                       /\ ps[i].text = " "
                       /\ 1 < i /\ i < Len(ps)
                       /\ ps[i - 1].kind = "subpath"
                       /\ ps[i + 1].kind = "subpath"
            /\ \A i \in 1 .. Len(ps) - 1 :
                   ps[i].kind = "subpath" => ps[i + 1].kind = "other"
            /\ ~StartsAt(PathData, " ", 1)

----------------------------------------------------------------------------
(* C3: the document is the XML declaration, the SVG 1.1 DOCTYPE, one svg    *)
(* element with viewBox "0 0 W W", W = N + 2*border computed without 16-bit *)
(* wrap-around, and stroke="none", one white rect, exactly one path filled  *)
(* #000000 and the closing svg tag, with nothing else, also for a symbol    *)
(* without a dark module; a 1x1 dark symbol with border 1 gives the viewBox *)
(* "0 0 3 3" and the path data M1,1h1v1h-1z.                                *)

C3_Document ==
    SvgRan =>
        LET w == ToString(qrCode.size + 2 * call.border)
        IN  /\ Doc = "<?xml version=\"1.0\" encoding=\"UTF-8\"?>"
                     \o "<!DOCTYPE svg PUBLIC \"-//W3C//DTD SVG 1.1//EN\" "
                     \o "\"http://www.w3.org/Graphics/SVG/1.1/DTD/svg11.dtd\">"
                     \o "<svg xmlns=\"http://www.w3.org/2000/svg\" version=\"1.1\" "
                     \o "viewBox=\"0 0 " \o w \o " " \o w \o "\" stroke=\"none\">"
                     \o "<rect width=\"100%\" height=\"100%\" fill=\"#FFFFFF\"/>"
                     \o "<path d=\"" \o PathData \o "\" fill=\"#000000\"/>"
                     \o "</svg>"
            /\ Occurrences(PathData, "<") = {}
            /\ Cardinality(Occurrences(Doc, "<path ")) = 1
            /\ Cardinality(Occurrences(Doc, "<rect ")) = 1
            /\ Cardinality(Occurrences(Doc, "<svg ")) = 1
            /\ (qrCode.dark = {} => PathData = "")
            /\ (qrCode = [size |-> 1, dark |-> {<<0, 0>>}] /\ call.border = 1) =>
                   /\ Attribute(Doc, "viewBox=\"") = "0 0 3 3"
                   /\ PathData = "M1,1h1v1h-1z"

\* toSvgString ran with the largest border, where twice the border passes 16 bits
C3_Witness ==
    /\ SvgRan
    /\ call.border = 65535
    /\ qrCode.dark = {}
    /\ Attribute(Doc, "viewBox=\"") = "0 0 131071 131071"

----------------------------------------------------------------------------
(* What a paint or an image holds, read back from the rectangles drawn      *)

PaintRan == call.entry \in {"qrCodePaint", "qrCodeToImage"}

Drawn ==
    IF call.entry = "qrCodeToImage" THEN call.output.image.drawn ELSE call.output.drawn

\* the dark modules in row-major order
DarkInOrder(qr) ==
    [k \in 1 .. Cardinality(qr.dark) |->
        CHOOSE c \in qr.dark :
            Cardinality({d \in qr.dark : RowMajor(qr, d) < RowMajor(qr, c)}) = k - 1]

\* a device length of a paint on a fresh painter, in hundredths of a module
Hundredths(v) ==
    RMul(RDiv(v, Rat(call.size, qrCode.size + 2 * call.border)), RInt(100))

----------------------------------------------------------------------------
(* C4: two calls of one entry point with the same arguments (for paintQr:   *)
(* on the same painter) yield the same output, whatever calls came between  *)
(* and before them.                                                         *)

C4_SameArgumentsSameOutput ==
    (/\ call # NoCall
     /\ call.entry = "paintQr" => call.before.object = kept.before.object)
        => (call.outcome = kept.outcome /\ call.output = kept.output)

(* C4 as amended: the same holds for generateQr and generateSvgQr, and for  *)
(* paintQr when the painter has the same transform, brush and pen on entry  *)
(* to both calls.                                                           *)
C4_SameArgumentsAndTransformSameOutput ==
    (/\ call # NoCall
     /\ call.entry = "paintQr" =>
            /\ call.before.transform = kept.before.transform
            /\ call.before.brush = kept.before.brush
            /\ call.before.pen = kept.before.pen)
        => (call.outcome = kept.outcome /\ call.output = kept.output)

\* a paint repeated on a fresh painter: same transform on entry, same rectangles
C4_Witness ==
    /\ call # NoCall
    /\ call.entry = "paintQr"
    /\ call.outcome = "ok"
    /\ call.output.drawn # <<>>
    /\ call.before.transform = kept.before.transform
    /\ call.before.object # kept.before.object
    /\ call.output = kept.output

----------------------------------------------------------------------------
(* C5: the image of qrCodeToImage is size x size pixels for every symbol    *)
(* and border, also when size is smaller than N + 2*border.                 *)

C5_ImageSide ==
    call.entry = "qrCodeToImage" =>
        /\ call.output.image.width = call.size
        /\ call.output.image.height = call.size

\* an image smaller than the symbol with its border
C5_Witness ==
    /\ call.entry = "qrCodeToImage"
    /\ call.size < qrCode.size + 2 * call.border
    /\ qrCode.dark # {}
    /\ call.output.image.width = 1

----------------------------------------------------------------------------
(* C6: when the encoder refuses (text, level), the call ends with that      *)
(* EncodingFailure, produces no output, and leaves the caller's painter as  *)
(* it was: no scale, no translation, no rectangle.                          *)

C6_FailureLeavesNoTrace ==
    [][(/\ call' # call
        /\ ~encodeText(call'.data, call'.errorCorrection).ok)
          => (/\ call'.outcome = "EncodingFailure"
              /\ call'.output = NoOutput
              /\ painter' = painter
              /\ paints' = paints)]_vars

\* a paintQr that failed on a painter already painted on, its transform intact
C6_Witness ==
    /\ call.entry = "paintQr"
    /\ call.outcome = "EncodingFailure"
    /\ call.output = NoOutput
    /\ painter = call.before
    /\ painter.transform # Identity
    /\ Len(paints) = 1

----------------------------------------------------------------------------
(* C7: the module grid occupies the region [b, b + N] x [b, b + N] of the   *)
(* viewBox [0, N + 2b] x [0, N + 2b]: every sub-path square lies in it, at  *)
(* the place of its module, b units from each side; likewise each painted  *)
(* rectangle covers the cell of its module in the image; with b = 0 the     *)
(* grid is the whole viewBox or image.                                      *)

ViewBoxSides ==
    LET vb == Attribute(Doc, "viewBox=\"")
        rest == SubSeq(vb, 5, Len(vb))
        sp == Find(rest, " ", 1)
    IN  [origin |-> SubSeq(vb, 1, 4),
         w |-> SubSeq(rest, 1, sp - 1),
         h |-> SubSeq(rest, sp + 1, Len(rest))]

C7_GridInsideMargins ==
    LET b == call.border
        n == qrCode.size
    IN  /\ SvgRan =>
            LET subs == SubPathsOf(PathData)
                v == ViewBoxSides
            IN  /\ v.origin = "0 0 "
                /\ IsDigits(v.w) /\ IsDigits(v.h)
                /\ ParseNat(v.w) = ParseNat(v.h)
                /\ ParseNat(v.w) - (b + n) = b
                /\ \A k \in 1 .. Len(subs) :
                       /\ b <= subs[k].x /\ subs[k].x + 1 <= ParseNat(v.w) - b
                       /\ b <= subs[k].y /\ subs[k].y + 1 <= ParseNat(v.h) - b
                /\ \A c \in qrCode.dark :
                       \E k \in 1 .. Len(subs) :
                           subs[k].x = b + c[1] /\ subs[k].y = b + c[2]
                /\ (b = 0 => ParseNat(v.w) = n)
        /\ PaintRan =>
            LET cells == DarkInOrder(qrCode)
                unit == Rat(call.size, n + 2 * b)
            IN  /\ Len(Drawn) = Len(cells)
                /\ RMul(unit, RInt(n + 2 * b)) = RInt(call.size)
                /\ \A k \in 1 .. Len(cells) :
                       LET r == Drawn[k]
                           x == RInt(b + cells[k][1])
                           y == RInt(b + cells[k][2])
                       IN  /\ RLe(r.left, RMul(unit, x))
                           /\ RLe(RMul(unit, RAdd(x, RInt(1))), RAdd(r.left, r.width))
                           /\ RLe(r.top, RMul(unit, y))
                           /\ RLe(RMul(unit, RAdd(y, RInt(1))), RAdd(r.top, r.height))

\* a fully dark symbol written without border: the squares reach every side
C7_Witness ==
    /\ SvgRan
    /\ call.border = 0
    /\ qrCode.size = 2
    /\ qrCode.dark = Cells(2)
    /\ ViewBoxSides.w = "2"

----------------------------------------------------------------------------
(* C8: a successful paint leaves the painter's transform composed with a    *)
(* uniform scale by size / (N + 2*border) and then a translation by         *)
(* (border - 0.02, border - 0.02); nothing restores it, so after k paints   *)
(* all k scales and translations are accumulated; brush and pen stay as the *)
(* caller set them.                                                         *)

\* the product of the scales of the first i paints
RECURSIVE ScaleAfter(_, _)
ScaleAfter(log, i) ==
    IF i = 0 THEN RInt(1)
    ELSE RMul(ScaleAfter(log, i - 1), Rat(log[i].size, log[i].n + 2 * log[i].border))

\* the sum over the first i paints of the translation of each, in device units
RECURSIVE ShiftAfter(_, _)
ShiftAfter(log, i) ==
    IF i = 0 THEN RInt(0)
    ELSE RAdd(ShiftAfter(log, i - 1),
              RMul(ScaleAfter(log, i), Rat(100 * log[i].border - 2, 100)))

C8_TransformAccumulates ==
    /\ painter.transform.m11 = ScaleAfter(paints, Len(paints))
    /\ painter.transform.m22 = ScaleAfter(paints, Len(paints))
    /\ painter.transform.dx = ShiftAfter(paints, Len(paints))
    /\ painter.transform.dy = ShiftAfter(paints, Len(paints))
    /\ painter.brush = CallerPainter(1).brush
    /\ painter.pen = CallerPainter(1).pen
    /\ (call.entry = "paintQr" /\ call.outcome = "ok" /\ paints # <<>>) =>
           /\ call.before.transform.m11 = ScaleAfter(paints, Len(paints) - 1)
           /\ call.before.transform.dx = ShiftAfter(paints, Len(paints) - 1)
           /\ call.before.brush = painter.brush
           /\ call.before.pen = painter.pen

\* two paints of different scale and border on one painter
C8_Witness ==
    /\ call.entry = "paintQr"
    /\ call.outcome = "ok"
    /\ Len(paints) = 2
    /\ paints[1].border # paints[2].border
    /\ paints[1].n # paints[2].n
    /\ painter.transform # call.before.transform
    /\ call.before.transform # Identity

----------------------------------------------------------------------------
(* C9: the image and the paint issue the same rectangles: under the scale   *)
(* size / (N + 2*border) and the translation border - 0.02, one rectangle   *)
(* for each dark module, in row-major order, with its corner at (x, y) and  *)
(* a side of 1.04 module units, and none for a light module.                *)

C9_RectanglePerDarkModule ==
    PaintRan =>
        LET cells == DarkInOrder(qrCode)
            den == 100 * (qrCode.size + 2 * call.border)
        IN  /\ qrCode.size + 2 * call.border > 0
            /\ Len(Drawn) = Cardinality(qrCode.dark)
            /\ \A k \in 1 .. Len(Drawn) :
                   LET x == cells[k][1]
                       y == cells[k][2]
                   IN  /\ Drawn[k].left = Rat((100 * (x + call.border) - 2) * call.size, den)
                       /\ Drawn[k].top = Rat((100 * (y + call.border) - 2) * call.size, den)
                       /\ Drawn[k].width = Rat(104 * call.size, den)
                       /\ Drawn[k].height = Rat(104 * call.size, den)

\* an image of a symbol with dark and light modules and a border
C9_Witness ==
    /\ call.entry = "qrCodeToImage"
    /\ qrCode.size = 2
    /\ qrCode.dark = {<<1, 0>>, <<0, 1>>}
    /\ call.border = 1
    /\ Len(call.output.image.drawn) = 2

----------------------------------------------------------------------------
(* C10: in hundredths of a module on a fresh painter, the rectangle of the  *)
(* dark module at (x, y) is [100(x+b) - 2, 100(x+b) + 102] by the same in   *)
(* y.  So the centre of a light module is never covered, two adjacent dark  *)
(* modules overlap by 4 hundredths, and every rectangle lies inside the     *)
(* image [0, 100(N + 2b)] when b >= 1 but reaches 2 hundredths outside it   *)
(* for the modules of the edge when b = 0.                                  *)

\* the rectangles of a paint as <<cell, left, right, top, bottom>> in hundredths
InHundredths ==
    LET cells == DarkInOrder(qrCode)
    IN  [k \in 1 .. Len(Drawn) |->
            [cell   |-> cells[k],
             left   |-> Hundredths(Drawn[k].left),
             right  |-> Hundredths(RAdd(Drawn[k].left, Drawn[k].width)),
             top    |-> Hundredths(Drawn[k].top),
             bottom |-> Hundredths(RAdd(Drawn[k].top, Drawn[k].height))]]

C10_Overlap ==
    call.entry = "qrCodePaint" =>
        LET rs == InHundredths
            b == call.border
            n == qrCode.size
            side == RInt(100 * (n + 2 * b))
        IN  /\ Len(rs) = Cardinality(qrCode.dark)
            /\ \A k \in 1 .. Len(rs) :
                   LET r == rs[k]
                       x == r.cell[1]
                       y == r.cell[2]
                   IN  /\ r.left = RInt(100 * (x + b) - 2)
                       /\ r.right = RInt(100 * (x + b) + 102)
                       /\ r.top = RInt(100 * (y + b) - 2)
                       /\ r.bottom = RInt(100 * (y + b) + 102)
                       /\ b >= 1 =>
                              /\ RLe(RInt(0), r.left) /\ RLe(r.right, side)
                              /\ RLe(RInt(0), r.top) /\ RLe(r.bottom, side)
                       /\ b = 0 =>
                              /\ x = 0 => r.left = RInt(-2)
                              /\ y = 0 => r.top = RInt(-2)
                              /\ x = n - 1 => RSub(r.right, side) = RInt(2)
                              /\ y = n - 1 => RSub(r.bottom, side) = RInt(2)
            /\ \A c \in Cells(n) \ qrCode.dark : \A k \in 1 .. Len(rs) :
                   LET cx == RInt(100 * (c[1] + b) + 50)
                       cy == RInt(100 * (c[2] + b) + 50)
                   IN  ~(/\ RLe(rs[k].left, cx) /\ RLe(cx, rs[k].right)
                         /\ RLe(rs[k].top, cy) /\ RLe(cy, rs[k].bottom))
            /\ \A k, l \in 1 .. Len(rs) :
                   /\ (rs[l].cell = <<rs[k].cell[1] + 1, rs[k].cell[2]>>) =>
                          RSub(rs[k].right, rs[l].left) = RInt(4)
                   /\ (rs[l].cell = <<rs[k].cell[1], rs[k].cell[2] + 1>>) =>
                          RSub(rs[k].bottom, rs[l].top) = RInt(4)

\* a paint without border of two adjacent dark modules beside a light one
C10_Witness ==
    /\ call.entry = "qrCodePaint"
    /\ call.border = 0
    /\ qrCode.size = 2
    /\ qrCode.dark = {<<0, 0>>, <<1, 0>>, <<0, 1>>}
    /\ InHundredths[1].left = RInt(-2)
    /\ RSub(InHundredths[1].right, InHundredths[2].left) = RInt(4)

====
